---- MODULE Spec2Model ----
(***************************************************************************)
(* Model of bot-script.py: a Telegram bot that relays text messages to     *)
(* Dialogflow.  One dispatcher thread takes updates from the update queue, *)
(* runs the first registered handler that accepts the update, and calls    *)
(* the registered error handler when the handler raises.                   *)
(***************************************************************************)
EXTENDS Integers, Sequences, FiniteSets, TLC

\* ---------------------------------------------------------------- bounds
MaxUpdates == 2          \* updates delivered by the transport in one run
MaxWorkers == 2          \* handlings that can be in progress at the same time

\* ------------------------------------------------------ program constants
DIALOGFLOW_PROJECT_ID == "my-project"
DIALOGFLOW_LANGUAGE_CODE == "en"
SESSION_ID == "current-user-id"

TRANSIENT_TEXT == "I'm having trouble understanding. Please try again later."
CLARIFY_TEXT == "I'm not sure I understand. Can you rephrase that?"
SORRY_TEXT == "Sorry, I encountered an error processing your message."
GENERIC_TEXT ==
    "An error occurred while processing your request. The developers have been notified."
\* help()'s text, without its line breaks, indentation and emoji
help_text ==
    "AI Bot Help: Just send me a message and I'll try to understand and respond! Commands: /start - Start interacting with the bot /help - Show this help message"

\* ------------------------------------------------------------ input data
\* Telegram user identifiers (integers) of the users that write to the bot.
Users == {7, 42}

NoCommand == "-"

\* An update is a message of a user in their private chat with the bot:
\* effective_user.id, message.text and the command name of a leading
\* bot_command entity (NoCommand when the text does not start with one).
\* text "" stands for a message without text (photo, sticker, ...).
Updates ==
    [user : Users, text : {"", "   ", "hello"}, command : {NoCommand}]
      \cup [user : Users, text : {"/start"}, command : {"start"}]
      \cup [user : Users, text : {"/help"}, command : {"help"}]
      \cup [user : Users, text : {"/other"}, command : {"other"}]

\* What the dispatcher has in place of an update when there is none: before
\* the first update, and when it reports an error of the polling thread, for
\* which it calls the error handlers with update = None.
NoUpdate == [user |-> 0, text |-> "", command |-> NoCommand]

\* os.getenv() of a variable: "None" when it is not set, possibly empty.
TELEGRAM_TOKEN == "123:abc"
TokenValues == {"None", "", TELEGRAM_TOKEN}
ProjectValues == {"None", "", DIALOGFLOW_PROJECT_ID}

\* Texts that are empty or consist of whitespace only.
Blank == {"", "   "}

\* What a Dialogflow call can do once it has been issued: return a query
\* result, raise one of the two API-level errors, or raise anything else.
Reasons == {"quota", "network"}
ProviderOutcomes ==
    [kind : {"result"}, is_fallback : {FALSE},
     fulfillment_text : {"", "Hi there!"}, reason : {"-"}]
      \cup [kind : {"result"}, is_fallback : {TRUE},
            fulfillment_text : {"", "Say again?"}, reason : {"-"}]
      \cup [kind : {"GoogleAPICallError", "RetryError"}, is_fallback : {FALSE},
            fulfillment_text : {""}, reason : Reasons]
      \cup [kind : {"Exception"}, is_fallback : {FALSE},
            fulfillment_text : {""}, reason : {"bug"}]

NoOutcome ==
    [kind |-> "none", is_fallback |-> FALSE, fulfillment_text |-> "", reason |-> "-"]

\* dialogflow.SessionsClient() raised (for instance, no credentials): no call
\* was issued.
ClientError ==
    [kind |-> "ClientError", is_fallback |-> FALSE, fulfillment_text |-> "",
     reason |-> "credentials"]

\* ------------------------------------------------------------- variables
VARIABLES
    queue,       \* updater's update queue: updates polled, not yet dispatched
    received,    \* number of updates polled so far
    dispatched,  \* number of updates taken from the queue so far
    pc,          \* position of the dispatcher thread
    update,      \* the update of the current (or last) dispatch cycle
    handler,     \* the handler that accepted it ("none" when no handler did)
    outcome,     \* what the Dialogflow call of this cycle did
    nluCalls,    \* Dialogflow requests submitted in this cycle
    attempts,    \* reply sends attempted in this cycle, in order
    caught,      \* where exceptions of this cycle were caught
    errors,      \* logger.error lines of this cycle
    sessions,    \* every (user, session) pair ever submitted to Dialogflow
    env,         \* the environment: TELEGRAM_TOKEN and DIALOGFLOW_PROJECT_ID
    boot,        \* position of the main block: "main", "running" or "failed"
    clients,     \* number of dialogflow.SessionsClient() constructions so far
    work         \* the handlings in progress when handlers run in parallel

vars == <<queue, received, dispatched, pc, update, handler, outcome,
          nluCalls, attempts, caught, errors, sessions, env, boot, clients,
          work>>

\* ------------------------------------------------------- pure operations
Digit(d) ==
    CASE d = 0 -> "0" [] d = 1 -> "1" [] d = 2 -> "2" [] d = 3 -> "3"
      [] d = 4 -> "4" [] d = 5 -> "5" [] d = 6 -> "6" [] d = 7 -> "7"
      [] d = 8 -> "8" [] OTHER -> "9"

\* str(n) for a non-negative integer: its decimal digits.
RECURSIVE Str(_)
Str(n) == IF n < 10 THEN Digit(n) ELSE Str(n \div 10) \o Digit(n % 10)

\* A user id that ignores the sender: the module's SESSION_ID placeholder.
user_id_placeholder(u) == SESSION_ID

\* handle_message: user_id = str(update.effective_user.id)
user_id(u) == Str(u.user)

\* session_client.session_path(project, session)
session_path(project, session) ==
    "projects/" \o project \o "/agent/sessions/" \o session

\* user.mention_markdown_v2()
mention_markdown_v2(u) == "[user](tg://user?id=" \o Str(u.user) \o ")"

\* the text start() sends: a raw f-string literal, in which \' keeps its
\* backslash, followed by an ordinary literal
start_text(u) ==
    "Hi " \o mention_markdown_v2(u)
      \o "\\! I\\'m an AI\\-powered bot\\. Ask me anything and I'll do my best to help\\!"

\* Filters.text: the message has a (non-empty) text
FiltersText(u) == u.text # ""

\* Filters.command: the message starts with a bot command
FiltersCommand(u) == u.command # NoCommand

\* CommandHandler(name, ...).check_update
CommandHandlerAccepts(name, u) == FiltersCommand(u) /\ u.command = name

\* MessageHandler(Filters.text & ~Filters.command, ...).check_update
MessageHandlerAccepts(u) == FiltersText(u) /\ ~FiltersCommand(u)

\* The text handler registered first and without the command exclusion.
MatchHandler_text_first(u) ==
    IF FiltersText(u) THEN "handle_message"
    ELSE IF CommandHandlerAccepts("start", u) THEN "start"
    ELSE IF CommandHandlerAccepts("help", u) THEN "help"
    ELSE "none"

\* The dispatcher runs the first handler, in registration order, that
\* accepts the update, and no other.
MatchHandler(u) ==
    IF CommandHandlerAccepts("start", u) THEN "start"
    ELSE IF CommandHandlerAccepts("help", u) THEN "help"
    ELSE IF MessageHandlerAccepts(u) THEN "handle_message"
    ELSE "none"

\* One reply_text / reply_markdown_v2 call on the update's message: the text,
\* the chat it goes to, and whether the send returned (ok) or raised.
Send(u, text, ok) == [chat |-> u.user, text |-> text, ok |-> ok]

\* The reply sends that succeeded.
Delivered == SelectSeq(attempts, LAMBDA a : a.ok)

\* A handler whose apology is sent after the reply instead of in its place.
ReplyInTry_twice(u, text, ok1, ok2) ==
    <<Send(u, text, ok1), Send(u, SORRY_TEXT, ok2)>>

\* handle_message's try block from the point where the reply text is known:
\* send it; if the send raises, the except clause logs and sends SORRY_TEXT.
ReplyInTry(u, text, ok1, ok2) ==
    IF ok1 THEN <<Send(u, text, TRUE)>>
    ELSE <<Send(u, text, FALSE), Send(u, SORRY_TEXT, ok2)>>

\* An except clause that answers with the error handler's text.
ReplyInExcept_generic(u, ok2) == <<Send(u, GENERIC_TEXT, ok2)>>

\* An except clause that sends its apology twice.
ReplyInExcept_twice(u, ok2) ==
    <<Send(u, SORRY_TEXT, ok2), Send(u, SORRY_TEXT, ok2)>>

\* handle_message's except clause alone (the exception came from detect_intent).
ReplyInExcept(u, ok2) == <<Send(u, SORRY_TEXT, ok2)>>

\* Position of the dispatcher after a handler: the error handler runs when
\* the handler raised, otherwise the dispatcher awaits the next update.
AfterHandler(raised) == IF raised THEN "error_handler" ELSE "idle"

\* A dispatcher that stops when the error handler itself raises.
AfterErrorHandler_stop(raised) == IF raised THEN "stopped" ELSE "idle"

\* Position of the dispatcher after the error handler, whether or not the
\* error handler itself raised: the dispatcher logs and goes on.
AfterErrorHandler(raised) == "idle"

\* A handling slot that has not been given an update.
FreeSlot ==
    [pc |-> "free", update |-> NoUpdate, outcome |-> NoOutcome,
     nluCalls |-> <<>>, attempts |-> <<>>]

\* ------------------------------------------------------------ the machine
Init ==
    /\ queue = <<>>
    /\ received = 0
    /\ dispatched = 0
    /\ pc = "idle"
    /\ update = NoUpdate
    /\ handler = "none"
    /\ outcome = NoOutcome
    /\ nluCalls = <<>>
    /\ attempts = <<>>
    /\ caught = {}
    /\ errors = <<>>
    /\ sessions = {}
    /\ env \in [token : TokenValues, project : ProjectValues]
    /\ boot = "main"
    /\ clients = 0
    /\ work = [w \in 1..MaxWorkers |-> FreeSlot]

\* A configuration check that tests the token only.
ConfigPresent_token_only(e) == e.token \notin {"None", ""}

\* not (not TELEGRAM_TOKEN or not DIALOGFLOW_PROJECT_ID): both values are set
\* and not empty.
ConfigPresent(e) == e.token \notin {"None", ""} /\ e.project \notin {"None", ""}

\* The main block: raise ValueError when the configuration is incomplete,
\* otherwise construct the bot (which registers the handlers) and run it.
Main ==
    /\ boot = "main"
    /\ boot' = IF ConfigPresent(env) THEN "running" ELSE "failed"
    /\ UNCHANGED <<queue, received, dispatched, pc, update, handler, outcome,
                   nluCalls, attempts, caught, errors, sessions, env, clients, work>>

\* The polling thread fails to fetch updates: it puts the error in the update
\* queue, where the dispatcher finds it in place of an update.
PollingError ==
    /\ boot = "running"
    /\ received < MaxUpdates
    /\ received' = received + 1
    /\ queue' = Append(queue, NoUpdate)
    /\ UNCHANGED <<dispatched, pc, update, handler, outcome, nluCalls,
                   attempts, caught, errors, sessions, env, boot, clients, work>>

\* updater.start_polling(): the transport delivers an update.
Receive(u) ==
    /\ boot = "running"
    /\ received < MaxUpdates
    /\ received' = received + 1
    /\ queue' = Append(queue, u)
    /\ UNCHANGED <<dispatched, pc, update, handler, outcome, nluCalls,
                   attempts, caught, errors, sessions, env, boot, clients, work>>

\* The dispatcher takes the next update and selects its handler; an error of
\* the polling thread goes to the error handler, without an update.
ProcessUpdate ==
    /\ pc = "idle"
    /\ queue # <<>>
    /\ update' = Head(queue)
    /\ queue' = Tail(queue)
    /\ dispatched' = dispatched + 1
    /\ handler' = MatchHandler(Head(queue))
    /\ pc' = IF Head(queue) = NoUpdate THEN "error_handler"
             ELSE IF MatchHandler(Head(queue)) = "none" THEN "idle"
             ELSE MatchHandler(Head(queue))
    /\ outcome' = NoOutcome
    /\ nluCalls' = <<>>
    /\ attempts' = <<>>
    /\ caught' = IF Head(queue) = NoUpdate THEN {"dispatcher"} ELSE {}
    /\ errors' = <<>>
    /\ UNCHANGED <<received, sessions, env, boot, clients, work>>

\* start(): reply with the greeting.
Start ==
    /\ pc = "start"
    /\ \E ok \in BOOLEAN :
         /\ attempts' = Append(attempts, Send(update, start_text(update), ok))
         /\ pc' = AfterHandler(~ok)
         /\ caught' = IF ok THEN caught ELSE caught \cup {"dispatcher"}
    /\ UNCHANGED <<queue, received, dispatched, update, handler, outcome,
                   nluCalls, errors, sessions, env, boot, clients, work>>

\* help(): reply with the help text.
Help ==
    /\ pc = "help"
    /\ \E ok \in BOOLEAN :
         /\ attempts' = Append(attempts, Send(update, help_text, ok))
         /\ pc' = AfterHandler(~ok)
         /\ caught' = IF ok THEN caught ELSE caught \cup {"dispatcher"}
    /\ UNCHANGED <<queue, received, dispatched, update, handler, outcome,
                   nluCalls, errors, sessions, env, boot, clients, work>>

\* handle_message() up to the Dialogflow call in detect_intent().  Building
\* the SessionsClient can raise (clientOk = FALSE); that exception is not an
\* API error, so it leaves detect_intent and handle_message's except clause
\* answers it.
HandleMessage ==
    /\ pc = "handle_message"
    /\ clients' = clients + 1
    /\ \E clientOk, ok2 \in BOOLEAN :
         IF clientOk
         THEN /\ nluCalls' = Append(nluCalls,
                    [session |-> session_path(env.project, user_id(update)),
                     text |-> update.text,
                     language_code |-> DIALOGFLOW_LANGUAGE_CODE])
              /\ sessions' = sessions \cup
                    {[user |-> update.user,
                      session |-> session_path(env.project, user_id(update))]}
              /\ pc' = "awaiting_provider"
              /\ UNCHANGED <<attempts, caught, errors, outcome, work>>
         ELSE /\ outcome' = ClientError
              /\ attempts' = attempts \o ReplyInExcept(update, ok2)
              /\ errors' = Append(errors, "Error processing message")
              /\ caught' = IF ok2 THEN caught \cup {"handle_message"}
                           ELSE caught \cup {"handle_message", "dispatcher"}
              /\ pc' = AfterHandler(~ok2)
              /\ UNCHANGED <<nluCalls, sessions, work>>
    /\ UNCHANGED <<queue, received, dispatched, update, handler, env, boot, work>>

\* A reply text that replaces an empty fulfillment text.
ReplyText_blank(o) ==
    IF o.kind # "result" THEN TRANSIENT_TEXT
    ELSE IF o.is_fallback \/ o.fulfillment_text = "" THEN CLARIFY_TEXT
    ELSE o.fulfillment_text

\* A reply text that does not look at the fallback flag.
ReplyText_nofallback(o) ==
    IF o.kind # "result" THEN TRANSIENT_TEXT ELSE o.fulfillment_text

\* A reply text that is empty when detect_intent returned None.
ReplyText_silent(o) ==
    IF o.kind # "result" THEN ""
    ELSE IF o.is_fallback THEN CLARIFY_TEXT
    ELSE o.fulfillment_text

\* The text handle_message replies with for what detect_intent returned:
\* None, a fallback result, or a recognized result.
ReplyText(o) ==
    IF o.kind # "result" THEN TRANSIENT_TEXT
    ELSE IF o.is_fallback THEN CLARIFY_TEXT
    ELSE o.fulfillment_text

\* An except clause that names GoogleAPICallError only.
AdapterCatches_api_only(o) == o.kind = "GoogleAPICallError"

\* An except clause that catches every exception of the call.
AdapterCatches_all(o) == o.kind # "result"

\* The exception kinds detect_intent's except clause converts to None.
AdapterCatches(o) == o.kind \in {"GoogleAPICallError", "RetryError"}

\* An adapter that submits the request again after an API error.
CallsAfter_retry(calls, o) ==
    IF o.kind \in {"GoogleAPICallError", "RetryError"} THEN calls \o calls ELSE calls

\* The requests of the cycle once the call has returned or raised: neither
\* detect_intent's except clause nor handle_message submits anything more.
CallsAfter(calls, o) == calls

\* The Dialogflow call returns or raises, and handle_message runs to its end.
DetectIntentReturns(o) ==
    /\ pc = "awaiting_provider"
    /\ outcome' = o
    /\ nluCalls' = CallsAfter(nluCalls, o)
    /\ \E ok1, ok2 \in BOOLEAN :
         IF o.kind = "result" \/ AdapterCatches(o)
         THEN /\ attempts' = attempts \o ReplyInTry(update, ReplyText(o), ok1, ok2)
              /\ errors' = errors
                    \o (IF AdapterCatches(o) THEN <<"Dialogflow API error">> ELSE <<>>)
                    \o (IF ok1 THEN <<>> ELSE <<"Error processing message">>)
              /\ caught' = caught
                    \cup (IF AdapterCatches(o) THEN {"detect_intent"} ELSE {})
                    \cup (IF ok1 THEN {} ELSE {"handle_message"})
                    \cup (IF ok1 \/ ok2 THEN {} ELSE {"dispatcher"})
              /\ pc' = AfterHandler(~ok1 /\ ~ok2)
         ELSE /\ attempts' = attempts \o ReplyInExcept(update, ok2)
              /\ errors' = Append(errors, "Error processing message")
              /\ caught' = caught \cup {"handle_message"}
                    \cup (IF ok2 THEN {} ELSE {"dispatcher"})
              /\ pc' = AfterHandler(~ok2)
    /\ UNCHANGED <<queue, received, dispatched, update, handler,
                   sessions, env, boot, clients, work>>

\* The Dialogflow call never returns: it is issued without a timeout, and
\* the dispatcher thread stays inside it.
ProviderHangs ==
    /\ pc = "awaiting_provider"
    /\ pc' = "hung"
    /\ UNCHANGED <<queue, received, dispatched, update, handler, outcome,
                   nluCalls, attempts, caught, errors, sessions, env, boot, clients, work>>

\* An error handler that replies without looking at the update.
HasEffectiveMessage_always(u) == TRUE

\* error_handler's test "update and update.effective_message": every update
\* a handler accepted is a message, so it fails only when there is no update.
HasEffectiveMessage(u) == u # NoUpdate

\* error_handler(): log, and reply with the generic text when the update has
\* a message to reply to.  An exception of this send is logged by the
\* dispatcher and goes no further.
ErrorHandler ==
    /\ pc = "error_handler"
    /\ IF HasEffectiveMessage(update)
       THEN \E ok \in BOOLEAN :
              /\ attempts' = Append(attempts, Send(update, GENERIC_TEXT, ok))
              /\ pc' = AfterErrorHandler(~ok)
       ELSE /\ attempts' = attempts
            /\ pc' = AfterErrorHandler(FALSE)
    /\ errors' = Append(errors, "Exception while handling an update:")
    /\ caught' = caught \cup {"error_handler"}
    /\ UNCHANGED <<queue, received, dispatched, update, handler, outcome,
                   nluCalls, sessions, env, boot, clients, work>>

Next ==
    \/ Main
    \/ \E u \in Updates : Receive(u)
    \/ PollingError
    \/ ProcessUpdate
    \/ Start
    \/ Help
    \/ HandleMessage
    \/ \E o \in ProviderOutcomes : DetectIntentReturns(o)
    \/ ProviderHangs
    \/ ErrorHandler

Spec == Init /\ [][Next]_vars

\* The dispatcher thread keeps running: every step it can take it eventually
\* takes.  Nothing obliges the transport to deliver updates, and a Dialogflow
\* call that hangs (ProviderHangs) is a choice of the provider.
FairSpec ==
    /\ Spec
    /\ WF_vars(Main)
    /\ WF_vars(ProcessUpdate)
    /\ WF_vars(Start)
    /\ WF_vars(Help)
    /\ WF_vars(HandleMessage)
    /\ WF_vars(\E o \in ProviderOutcomes : DetectIntentReturns(o))
    /\ WF_vars(ErrorHandler)

\* ------------------------------------------- handlers running in parallel
\* The source does not fix how the dispatcher schedules handle_message: this
\* second machine lets up to MaxWorkers handlings run in parallel, every one
\* executing handle_message, detect_intent and error_handler as above on an
\* update and locals of its own, interleaved in every order.  The handlings of
\* the dispatcher thread above, one after the other, are among its runs.
Workers == 1..MaxWorkers

\* Text messages given to the parallel handlings: one text for each user.
WorkerUpdates ==
    {[user |-> 7, text |-> "hello", command |-> NoCommand],
     [user |-> 42, text |-> "   ", command |-> NoCommand]}

\* What the Dialogflow call of a parallel handling can do.
WorkerOutcomes ==
    {o \in ProviderOutcomes :
        /\ o.kind = "result" => o.fulfillment_text # ""
        /\ o.kind # "GoogleAPICallError"
        /\ o.reason \in {"-", "network", "bug"}}

\* A handling that finds its update in the bot instance, where the handling
\* that started last has put its own.
OwnUpdate_shared(w) == update

\* The update a handling works on: the parameter of its handle_message call.
OwnUpdate(w) == work[w].update

\* handle_message() of a parallel handling, up to the Dialogflow call.
WorkerHandleMessage(w, u) ==
    /\ boot = "running"
    /\ work[w].pc = "free"
    /\ MatchHandler(u) = "handle_message"
    /\ update' = u
    /\ clients' = clients + 1
    /\ \E clientOk, ok2 \in BOOLEAN :
         IF clientOk
         THEN /\ work' = [work EXCEPT ![w] =
                    [pc |-> "awaiting_provider", update |-> u, outcome |-> NoOutcome,
                     nluCalls |-> <<[session |-> session_path(env.project, user_id(u)),
                                     text |-> u.text,
                                     language_code |-> DIALOGFLOW_LANGUAGE_CODE]>>,
                     attempts |-> <<>>]]
              /\ sessions' = sessions \cup
                    {[user |-> u.user,
                      session |-> session_path(env.project, user_id(u))]}
         ELSE /\ work' = [work EXCEPT ![w] =
                    [pc |-> IF AfterHandler(~ok2) = "idle" THEN "done"
                            ELSE AfterHandler(~ok2),
                     update |-> u, outcome |-> ClientError,
                     nluCalls |-> <<>>, attempts |-> ReplyInExcept(u, ok2)]]
              /\ UNCHANGED sessions
    /\ UNCHANGED <<queue, received, dispatched, pc, handler, outcome, nluCalls,
                   attempts, caught, errors, env, boot>>

\* The Dialogflow call of a parallel handling returns or raises, and its
\* handle_message runs to its end.
WorkerDetectIntentReturns(w, o) ==
    /\ work[w].pc = "awaiting_provider"
    /\ \E ok1, ok2 \in BOOLEAN :
         work' = [work EXCEPT ![w] =
            [pc |-> IF AfterHandler(IF o.kind = "result" \/ AdapterCatches(o)
                                    THEN ~ok1 /\ ~ok2 ELSE ~ok2) = "idle"
                    THEN "done" ELSE "error_handler",
             update |-> work[w].update,
             outcome |-> o,
             nluCalls |-> CallsAfter(work[w].nluCalls, o),
             attempts |-> work[w].attempts \o
                (IF o.kind = "result" \/ AdapterCatches(o)
                 THEN ReplyInTry(OwnUpdate(w), ReplyText(o), ok1, ok2)
                 ELSE ReplyInExcept(OwnUpdate(w), ok2))]]
    /\ UNCHANGED <<queue, received, dispatched, pc, update, handler, outcome,
                   nluCalls, attempts, caught, errors, sessions, env, boot,
                   clients>>

\* The Dialogflow call of a parallel handling never returns.
WorkerProviderHangs(w) ==
    /\ work[w].pc = "awaiting_provider"
    /\ work' = [work EXCEPT ![w].pc = "hung"]
    /\ UNCHANGED <<queue, received, dispatched, pc, update, handler, outcome,
                   nluCalls, attempts, caught, errors, sessions, env, boot,
                   clients>>

\* error_handler() for a parallel handling whose handle_message raised.
WorkerErrorHandler(w) ==
    /\ work[w].pc = "error_handler"
    /\ \E ok \in BOOLEAN :
         work' = [work EXCEPT
            ![w].pc = "done",
            ![w].attempts =
                IF HasEffectiveMessage(OwnUpdate(w))
                THEN Append(work[w].attempts, Send(OwnUpdate(w), GENERIC_TEXT, ok))
                ELSE work[w].attempts]
    /\ UNCHANGED <<queue, received, dispatched, pc, update, handler, outcome,
                   nluCalls, attempts, caught, errors, sessions, env, boot,
                   clients>>

WorkerNext ==
    \/ Main
    \/ \E w \in Workers, u \in WorkerUpdates : WorkerHandleMessage(w, u)
    \/ \E w \in Workers, o \in WorkerOutcomes : WorkerDetectIntentReturns(w, o)
    \/ \E w \in Workers : WorkerProviderHangs(w)
    \/ \E w \in Workers : WorkerErrorHandler(w)

WorkerSpec == Init /\ [][WorkerNext]_vars

\* ------------------------------------------------------------ vocabulary
\* The dispatcher awaits the next update and at least one cycle has run:
\* the variables describe the cycle that just ended.
CycleDone == pc = "idle" /\ dispatched > 0

TypeOK ==
    /\ pc \in {"idle", "start", "help", "handle_message", "awaiting_provider",
               "hung", "error_handler"}
    /\ update \in Updates \cup {NoUpdate}
    /\ boot \in {"main", "running", "failed"}
    /\ clients \in 0..(dispatched + MaxWorkers)
    /\ received \in 0..MaxUpdates
    /\ dispatched \in 0..received
    /\ Len(queue) = received - dispatched

\* The first reply the cycle's handler sent carries this text to the sender's
\* chat, and when that send returned it is the one reply of the cycle.
FirstReplyIs(text) ==
    /\ attempts # <<>>
    /\ attempts[1].text = text
    /\ attempts[1].chat = update.user
    /\ attempts[1].ok => Delivered = <<Send(update, text, TRUE)>>

\* ---------------------------------------------------------------- claims

\* C1 (as stated): every dispatch cycle of a message that a handler accepted
\* ends with exactly one reply delivered, addressed to the sender, wherever
\* the pipeline failed, the reply send included.
C1_ExactlyOneReply ==
    (CycleDone /\ handler # "none") =>
        /\ Len(Delivered) = 1
        /\ Delivered[1].chat = update.user

\* C1 (amended): a finished dispatch cycle has at most one reply send that
\* succeeded; every send goes to the sender's chat and none follows a send
\* that succeeded; the cycle has no successful send only when no handler
\* accepted the update or when every send raised, the error handler's
\* generic reply being the last one tried.
C1_AtMostOneReply ==
    CycleDone =>
        /\ Len(Delivered) <= 1
        /\ \A i \in 1..Len(attempts) :
              /\ attempts[i].chat = update.user
              /\ attempts[i].ok => i = Len(attempts)
        /\ Len(Delivered) = 0 =>
              \/ handler = "none" /\ attempts = <<>>
              \/ /\ handler # "none"
                 /\ attempts # <<>>
                 /\ attempts[Len(attempts)] = Send(update, GENERIC_TEXT, FALSE)

\* C1 witness: a text message whose reply and whose apology both failed to
\* send and whose generic reply was delivered.
C1_Witness ==
    /\ CycleDone
    /\ handler = "handle_message"
    /\ Len(attempts) = 3
    /\ Delivered = <<Send(update, GENERIC_TEXT, TRUE)>>

\* C2 (as stated): a non-command message whose text is empty or whitespace
\* only never causes a Dialogflow request, and the reply of its cycle is the
\* clarification text.
C2_BlankNeverSubmitted ==
    (dispatched > 0 /\ update \in Updates
       /\ update.command = NoCommand /\ update.text \in Blank) =>
        /\ nluCalls = <<>>
        /\ CycleDone => FirstReplyIs(CLARIFY_TEXT)

\* C3: when the Dialogflow call raises GoogleAPICallError or RetryError the
\* exception is caught and logged in detect_intent and does not reach
\* handle_message's except clause; the reply handle_message sends is the
\* transient-failure text whatever the reason, and it is the cycle's one
\* reply when that send returns.
C3_TransientReply ==
    (CycleDone /\ outcome.kind \in {"GoogleAPICallError", "RetryError"}) =>
        /\ "detect_intent" \in caught
        /\ errors # <<>> /\ errors[1] = "Dialogflow API error"
        /\ FirstReplyIs(TRANSIENT_TEXT)
        /\ "handle_message" \in caught => ~attempts[1].ok

\* C3 witness: a RetryError answered by the transient-failure text.
C3_Witness ==
    /\ CycleDone
    /\ outcome.kind = "RetryError"
    /\ outcome.reason = "network"
    /\ Delivered = <<Send(update, TRANSIENT_TEXT, TRUE)>>
    /\ caught = {"detect_intent"}

\* C4: when Dialogflow returns a result that is not the fallback intent, the
\* reply handle_message sends is the result's fulfillment text unchanged, the
\* empty text included, and it is the cycle's one reply when that send
\* returns.
C4_MatchedVerbatim ==
    (CycleDone /\ outcome.kind = "result" /\ ~outcome.is_fallback) =>
        FirstReplyIs(outcome.fulfillment_text)

\* C4 witness: an empty fulfillment text delivered as the reply.
C4_Witness ==
    /\ CycleDone
    /\ outcome.kind = "result" /\ ~outcome.is_fallback
    /\ outcome.fulfillment_text = ""
    /\ Delivered = <<Send(update, "", TRUE)>>

\* C5: when Dialogflow returns a result of the fallback intent, the reply
\* handle_message sends is the clarification text, and no send of the cycle
\* carries the result's fulfillment text.
C5_FallbackClarifies ==
    (CycleDone /\ outcome.kind = "result" /\ outcome.is_fallback) =>
        /\ FirstReplyIs(CLARIFY_TEXT)
        /\ \A i \in 1..Len(attempts) : attempts[i].text # outcome.fulfillment_text

\* C5 witness: a fallback result with a fulfillment text of its own, answered
\* by the clarification text.
C5_Witness ==
    /\ CycleDone
    /\ outcome.kind = "result" /\ outcome.is_fallback
    /\ outcome.fulfillment_text = "Say again?"
    /\ Delivered = <<Send(update, CLARIFY_TEXT, TRUE)>>

\* An exception that is not one of the two API errors was raised inside
\* detect_intent in this cycle.
UnclassifiedException == outcome.kind \in {"Exception", "ClientError"}

\* C6 (as stated): when an unclassified exception occurs in the message
\* pipeline, the text the user receives is the generic text of the error
\* handler.
C6_GenericOnException ==
    (CycleDone /\ UnclassifiedException /\ Delivered # <<>>) =>
        Delivered[1].text = GENERIC_TEXT

\* C6 (amended): an unclassified exception raised in detect_intent is caught
\* by handle_message's own except clause, which replies with the apology
\* text; the generic text is sent only by the error handler, and the error
\* handler runs only when that apology send raised too.
C6_SorryThenGeneric ==
    (CycleDone /\ UnclassifiedException) =>
        /\ "handle_message" \in caught
        /\ FirstReplyIs(SORRY_TEXT)
        /\ "error_handler" \in caught <=> ~attempts[1].ok
        /\ \A i \in 1..Len(attempts) :
              attempts[i].text = GENERIC_TEXT =>
                  i = 2 /\ "error_handler" \in caught

\* C6 witness: an exception of the Dialogflow call answered by the apology.
C6_Witness ==
    /\ CycleDone
    /\ outcome.kind = "Exception"
    /\ Delivered = <<Send(update, SORRY_TEXT, TRUE)>>

\* The session path expected for each user: the decimal form of the user's
\* identifier under the project's sessions.
ExpectedSession ==
    (7 :> "projects/my-project/agent/sessions/7")
      @@ (42 :> "projects/my-project/agent/sessions/42")

\* C7: every request is submitted under the session named by the string form
\* of the sender's identifier; requests of one user share their session and
\* requests of two users never do.
C7_SessionPerUser ==
    /\ \A s \in sessions : s.session = ExpectedSession[s.user]
    /\ \A s, t \in sessions : (s.user = t.user) <=> (s.session = t.session)
    /\ \A i \in 1..Len(nluCalls) : nluCalls[i].session = ExpectedSession[update.user]

\* C7 witness: both users have had a text submitted.
C7_Witness ==
    /\ CycleDone
    /\ Cardinality(sessions) = 2
    /\ nluCalls # <<>>

\* The static reply of a command.
CommandReply(u) == IF u.command = "start" THEN start_text(u) ELSE help_text

\* C8: an update that carries /start or /help is given to that command's
\* handler and never to the text handler; no Dialogflow request is made in
\* its cycle, and the reply its handler sends is the command's static text.
C8_CommandsBypassNlu ==
    (dispatched > 0 /\ update.command \in {"start", "help"}) =>
        /\ handler = update.command
        /\ pc \notin {"handle_message", "awaiting_provider", "hung"}
        /\ nluCalls = <<>>
        /\ outcome = NoOutcome
        /\ CycleDone => FirstReplyIs(CommandReply(update))

\* C8 witness: /start answered by the greeting.
C8_Witness ==
    /\ CycleDone
    /\ update.command = "start"
    /\ update.user = 42
    /\ Delivered =
         <<[chat |-> 42, ok |-> TRUE, text |->
            "Hi [user](tg://user?id=42)\\! I\\'m an AI\\-powered bot\\. Ask me anything and I'll do my best to help\\!"]>>

C10_LoopSurvivesFailure ==
    /\ (pc = "error_handler") ~> (pc = "idle")
    /\ \A n \in 0..MaxUpdates :
          (caught # {} /\ dispatched = n /\ received > n) ~> (dispatched > n)

\* C10 witness: the error handler's own send raised, the dispatcher is
\* awaiting updates again and the next update is in the queue.
C10_Witness ==
    /\ CycleDone
    /\ "error_handler" \in caught
    /\ attempts # <<>>
    /\ ~attempts[Len(attempts)].ok
    /\ attempts[Len(attempts)].text = GENERIC_TEXT
    /\ queue # <<>>

C12_ReplyNeverEmpty ==
    (CycleDone /\ outcome.kind \in {"result", "GoogleAPICallError", "RetryError"}) =>
        attempts[1].text # ""

\* C12 (amended): the reply text handle_message sends is not empty for a
\* fallback and for an unavailable outcome, and for a recognized outcome it
\* is empty exactly when the provider's fulfillment text is empty.
C12_EmptyOnlyIfFulfillmentEmpty ==
    (CycleDone /\ outcome.kind \in {"result", "GoogleAPICallError", "RetryError"}) =>
        /\ attempts # <<>>
        /\ attempts[1].text = "" <=>
              /\ outcome.kind = "result"
              /\ ~outcome.is_fallback
              /\ outcome.fulfillment_text = ""
        /\ \A i \in 2..Len(attempts) : attempts[i].text # ""

\* C12 witness: a fallback result whose own fulfillment text is empty,
\* answered by the clarification text.
C12_Witness ==
    /\ CycleDone
    /\ outcome.kind = "result" /\ outcome.is_fallback
    /\ outcome.fulfillment_text = ""
    /\ Delivered = <<Send(update, CLARIFY_TEXT, TRUE)>>

\* C14 (as stated): one Dialogflow client is constructed for the process and
\* the dispatch cycles reuse it; no cycle constructs a client of its own.
C14_OneClientPerProcess == clients <= 1

\* C15: when the transport token or the project identifier is missing or
\* empty, the main block raises before the bot is constructed: the process
\* never runs, and no update is ever polled or dispatched.
C15_FailFast ==
    (env.token \in {"None", ""} \/ env.project \in {"None", ""}) =>
        /\ boot # "running"
        /\ received = 0 /\ dispatched = 0 /\ queue = <<>>
        /\ pc = "idle" /\ attempts = <<>> /\ clients = 0

\* C15 witness: the token is set, the project identifier is not, and the
\* main block has raised.
C15_Witness ==
    /\ boot = "failed"
    /\ env.token = "123:abc"
    /\ env.project = "None"

\* C16: detect_intent converts GoogleAPICallError and RetryError, and nothing
\* else, to None; any other exception raised in it, by the call or while the
\* client is constructed, reaches handle_message's except clause, which logs
\* it and replies with the apology text and not with the transient text.
C16_OnlyApiErrorsConverted ==
    CycleDone =>
        /\ "detect_intent" \in caught <=>
              outcome.kind \in {"GoogleAPICallError", "RetryError"}
        /\ outcome.kind \in {"Exception", "ClientError"} =>
              /\ "handle_message" \in caught
              /\ errors # <<>> /\ errors[1] = "Error processing message"
              /\ attempts # <<>> /\ attempts[1] = Send(update, SORRY_TEXT, attempts[1].ok)
              /\ \A i \in 1..Len(attempts) : attempts[i].text # TRANSIENT_TEXT

\* C16 witness: constructing the client raised and the apology was delivered.
C16_Witness ==
    /\ CycleDone
    /\ outcome.kind = "ClientError"
    /\ nluCalls = <<>>
    /\ Delivered = <<Send(update, SORRY_TEXT, TRUE)>>

\* The number of sends of the cycle that carry this text.
SendsOf(text) == Cardinality({i \in 1..Len(attempts) : attempts[i].text = text})

\* C17: for one text message handle_message makes at most two sends, the
\* second being the apology and made only when an exception was raised in
\* its try block (a raising first send included); error_handler makes at most
\* one more, only when an exception left handle_message; when the reply send
\* returns and nothing raised, exactly one send is made.
C17_SendsBounded ==
    handler = "handle_message" =>
        /\ Len(attempts) <= 3
        /\ SendsOf(GENERIC_TEXT) <= 1
        /\ Len(attempts) - SendsOf(GENERIC_TEXT) <= 2
        /\ SendsOf(SORRY_TEXT) <= 1
        /\ SendsOf(SORRY_TEXT) = 1 => "handle_message" \in caught
        /\ SendsOf(GENERIC_TEXT) = 1 =>
              /\ "dispatcher" \in caught
              /\ attempts[Len(attempts)].text = GENERIC_TEXT
              /\ ~attempts[Len(attempts) - 1].ok
        /\ (CycleDone /\ caught \subseteq {"detect_intent"}
              /\ outcome.kind \notin {"Exception", "ClientError"}) =>
              Len(attempts) = 1 /\ attempts[1].ok

\* C17 witness: the reply, the apology and the generic reply were all tried
\* and all raised.
C17_Witness ==
    /\ CycleDone
    /\ handler = "handle_message"
    /\ outcome.kind = "result"
    /\ Len(attempts) = 3
    /\ Delivered = <<>>

ExpectedReply(o) ==
    CASE o.kind = "result" /\ ~o.is_fallback -> o.fulfillment_text
      [] o.kind = "result" /\ o.is_fallback ->
            "I'm not sure I understand. Can you rephrase that?"
      [] o.kind \in {"GoogleAPICallError", "RetryError"} ->
            "I'm having trouble understanding. Please try again later."
      [] OTHER -> "Sorry, I encountered an error processing your message."

\* C13: when handlings of different users' messages run in parallel, in every
\* interleaving each handling submits only its own user's text under its own
\* user's session, sends every reply to its own user, and replies with the
\* text that belongs to the provider's answer to its own request.
C13_HandlingsIndependent ==
    \A w \in Workers :
        work[w].pc # "free" =>
            /\ \A i \in 1..Len(work[w].attempts) :
                  work[w].attempts[i].chat = work[w].update.user
            /\ \A i \in 1..Len(work[w].nluCalls) :
                  /\ work[w].nluCalls[i].text = work[w].update.text
                  /\ work[w].nluCalls[i].session = ExpectedSession[work[w].update.user]
            /\ work[w].attempts # <<>> =>
                  work[w].attempts[1].text = ExpectedReply(work[w].outcome)

\* C13 witness: the handling of user 7's message started while the handling
\* of user 42's message was in progress, and it has delivered the provider's
\* answer to user 7 while the other handling, whose answer was a fallback and
\* whose sends raised, is still in its error handler.
C13_Witness ==
    /\ work[1].pc = "done"
    /\ work[1].update = [user |-> 7, text |-> "hello", command |-> NoCommand]
    /\ update = work[1].update
    /\ work[1].outcome.kind = "result" /\ work[1].outcome.fulfillment_text = "Hi there!"
    /\ work[1].attempts = <<[chat |-> 7, text |-> "Hi there!", ok |-> TRUE]>>
    /\ work[2].pc = "error_handler"
    /\ work[2].update.user = 42
    /\ work[2].outcome.is_fallback
====
